---------------------------- MODULE Spec2Model ----------------------------
(***************************************************************************)
(* AutoRoundQuantizer (src/transformers/quantizers/quantizer_auto_round.py)*)
(* as a state machine: the quantizer's fields, the environment it queries, *)
(* the model handle the host passes to its hooks, and what the last call   *)
(* did (exception raised, value returned, external routines invoked,       *)
(* notices logged).                                                        *)
(***************************************************************************)
EXTENDS Integers, Sequences, FiniteSets, TLC

(***************************************************************************)
(* Bounds of the model.                                                    *)
(***************************************************************************)
\* Installed versions have a minor within VersionSpread of the floor's minor
\* and a micro 0..VersionSpread, or no micro ("0.5").
VersionSpread == 1
\* Model handles are 1..MaxHandles (the conversion may return a new one).
MaxHandles == 2

(***************************************************************************)
(* Values.                                                                 *)
(***************************************************************************)
None == "None"
True == "True"
\* An attribute that was never assigned: reading it raises AttributeError.
ABSENT == "<no attribute>"

\* A version string, tokenised: "0.5" is [release |-> <<0, 5>>, pre |-> FALSE],
\* "0.5.0rc1" is [release |-> <<0, 5, 0>>, pre |-> TRUE].
FloorString == [release |-> <<0, 5, 0>>, pre |-> FALSE]
\* What the environment holds for a package that is not installed.
NoVersion == [release |-> <<>>, pre |-> FALSE]

\* The floor's major and the next one.
Majors == FloorString.release[1]..(FloorString.release[1] + 1)
Minors == (FloorString.release[2] - VersionSpread)..(FloorString.release[2] + VersionSpread)
Micros == 0..VersionSpread

VersionStrings ==
    { [release |-> r, pre |-> p] :
        r \in { <<a, b>> : a \in Majors, b \in Minors }
              \cup { <<a, b, c>> : a \in Majors, b \in Minors, c \in Micros },
        p \in BOOLEAN }

\* device_map=None, device_map="cuda", device_map={"": "cuda"}, ...
NoneMap == [kind |-> "none", dev |-> ""]
AbsentMap == [kind |-> "absent", dev |-> ""]
DeviceMaps ==
    { NoneMap, [kind |-> "str", dev |-> "cuda"],
      [kind |-> "dict", dev |-> "cuda"], [kind |-> "dict", dev |-> "cpu"] }

Dtypes == { None, "float16", "bfloat16", "float32" }

Backends == { "auto_round:exllamav2", "ipex" }

MainInputNames == { "input_ids", "pixel_values" }

Handles == 1..MaxHandles

NoError == [type |-> None, msg |-> ""]
ImportError(m) == [type |-> "ImportError", msg |-> m]
ModuleNotFoundError == [type |-> "ModuleNotFoundError", msg |-> "No module named 'auto_round'"]
AttributeError(a) == [type |-> "AttributeError", msg |-> a]
NotImplementedError == [type |-> "NotImplementedError", msg |-> ""]

InstallAutoRound == "pip install 'auto-round>=0.5'"
UpgradeAutoRound == "pip install --upgrade auto-round"
InstallOptimum == "pip install optimum"

\* One invocation of an external routine: the handle, device map and string
\* argument it was given, the handle and the value it returned.
Call(f, m, D, a, rm, r) ==
    [fn |-> f, model |-> m, dmap |-> D, arg |-> a, ret_model |-> rm, ret |-> r]

(***************************************************************************)
(* packaging.version: parse and <.                                         *)
(***************************************************************************)
RECURSIVE StripZeros(_)
StripZeros(r) ==
    IF r # <<>> /\ r[Len(r)] = 0 THEN StripZeros(SubSeq(r, 1, Len(r) - 1)) ELSE r

RECURSIVE TupleLess(_, _)
TupleLess(a, b) ==
    IF a = <<>> THEN b # <<>>
    ELSE IF b = <<>> THEN FALSE
    ELSE IF a[1] # b[1] THEN a[1] < b[1]
    ELSE TupleLess(Tail(a), Tail(b))

\* version.parse(s): the comparison key of the Version object.
parse(s) == [release |-> StripZeros(s.release), pre |-> IF s.pre THEN 0 ELSE 1]

VersionLess(a, b) ==
    \/ TupleLess(a.release, b.release)
    \/ a.release = b.release /\ a.pre < b.pre

(***************************************************************************)
(* auto_round.inference.convert_model.infer_target_device.                 *)
(***************************************************************************)
infer_target_device(D) ==
    IF D.kind = "none" THEN "cpu" ELSE D.dev

(***************************************************************************)
(* The methods of AutoRoundQuantizer, each as what one call does: the      *)
(* fields it assigns, the exception it raises (NoError: it returns), the   *)
(* external routines it invokes, in order, and the notices it logs.        *)
(***************************************************************************)

\* validate_environment querying the version before the availability check.
validate_environment_version_first(D, avail, ver, opt) ==
    LET q1 == Call("is_auto_round_available", 0, NoneMap, "", 0, ToString(avail))
        q2 == Call("importlib.metadata.version", 0, NoneMap, "auto_round", 0, "")
        q3 == Call("is_optimum_available", 0, NoneMap, "", 0, ToString(opt))
    IN  IF ~avail
        THEN [device_map |-> D, raised |-> ImportError(InstallAutoRound), calls |-> <<q2, q1>>]
        ELSE IF VersionLess(parse(ver), parse(FloorString))
        THEN [device_map |-> D, raised |-> ImportError(UpgradeAutoRound), calls |-> <<q2, q1>>]
        ELSE IF ~opt
        THEN [device_map |-> D, raised |-> ImportError(InstallOptimum), calls |-> <<q2, q1, q3>>]
        ELSE [device_map |-> D, raised |-> NoError, calls |-> <<q2, q1, q3>>]

\* validate_environment with the floor itself rejected (<= for <).
validate_environment_floor_rejected(D, avail, ver, opt) ==
    LET q1 == Call("is_auto_round_available", 0, NoneMap, "", 0, ToString(avail))
        q2 == Call("importlib.metadata.version", 0, NoneMap, "auto_round", 0, "")
        q3 == Call("is_optimum_available", 0, NoneMap, "", 0, ToString(opt))
    IN  IF ~avail
        THEN [device_map |-> D, raised |-> ImportError(InstallAutoRound), calls |-> <<q1>>]
        ELSE IF ~VersionLess(parse(FloorString), parse(ver))
        THEN [device_map |-> D, raised |-> ImportError(UpgradeAutoRound), calls |-> <<q1, q2>>]
        ELSE IF ~opt
        THEN [device_map |-> D, raised |-> ImportError(InstallOptimum), calls |-> <<q1, q2, q3>>]
        ELSE [device_map |-> D, raised |-> NoError, calls |-> <<q1, q2, q3>>]

\* validate_environment without the optimum check.
validate_environment_no_optimum_check(D, avail, ver, opt) ==
    LET q1 == Call("is_auto_round_available", 0, NoneMap, "", 0, ToString(avail))
        q2 == Call("importlib.metadata.version", 0, NoneMap, "auto_round", 0, "")
    IN  IF ~avail
        THEN [device_map |-> D, raised |-> ImportError(InstallAutoRound), calls |-> <<q1>>]
        ELSE IF VersionLess(parse(ver), parse(FloorString))
        THEN [device_map |-> D, raised |-> ImportError(UpgradeAutoRound), calls |-> <<q1, q2>>]
        ELSE [device_map |-> D, raised |-> NoError, calls |-> <<q1, q2>>]

\* validate_environment(device_map=D) in an environment where auto_round is
\* (not) available at version `ver` and optimum is (not) available.
validate_environment(D, avail, ver, opt) ==
    LET q1 == Call("is_auto_round_available", 0, NoneMap, "", 0, ToString(avail))
        q2 == Call("importlib.metadata.version", 0, NoneMap, "auto_round", 0, "")
        q3 == Call("is_optimum_available", 0, NoneMap, "", 0, ToString(opt))
    IN  IF ~avail
        THEN [device_map |-> D, raised |-> ImportError(InstallAutoRound), calls |-> <<q1>>]
        ELSE IF VersionLess(parse(ver), parse(FloorString))
        THEN [device_map |-> D, raised |-> ImportError(UpgradeAutoRound), calls |-> <<q1, q2>>]
        ELSE IF ~opt
        THEN [device_map |-> D, raised |-> ImportError(InstallOptimum), calls |-> <<q1, q2, q3>>]
        ELSE [device_map |-> D, raised |-> NoError, calls |-> <<q1, q2, q3>>]

\* update_torch_dtype forcing half precision on every request.
update_torch_dtype_forced(torch_dtype) ==
    IF torch_dtype = None
    THEN [returned |-> "float16",
          logs |-> <<"info: Loading the model in torch.float16">>]
    ELSE IF torch_dtype # "float16"
    THEN [returned |-> "float16",
          logs |-> <<"info: We suggest you to set torch_dtype=torch.float16">>]
    ELSE [returned |-> torch_dtype, logs |-> <<>>]

\* update_torch_dtype(torch_dtype).
update_torch_dtype(torch_dtype) ==
    IF torch_dtype = None
    THEN [returned |-> "float16",
          logs |-> <<"info: Loading the model in torch.float16">>]
    ELSE IF torch_dtype # "float16"
    THEN [returned |-> torch_dtype,
          logs |-> <<"info: We suggest you to set torch_dtype=torch.float16">>]
    ELSE [returned |-> torch_dtype, logs |-> <<>>]

\* The before-hook without the assignment to self.used_backends.
process_model_before_weight_loading_unrecorded(pq, dm, ub, m, main_input_name, avail, conv) ==
    LET warn == IF main_input_name # "input_ids"
                THEN <<"warning: limited support for models that are not purely text-based">>
                ELSE <<>>
        target_device == infer_target_device(dm)
        c1 == Call("infer_target_device", 0, dm, "", 0, target_device)
        c2 == Call("convert_hf_model", m, NoneMap, target_device, conv.model, conv.used_backends)
    IN  IF ~avail
        THEN [used_backends |-> ub, raised |-> ModuleNotFoundError, returned_model |-> 0,
              calls |-> <<>>, logs |-> warn]
        ELSE IF ~pq
        THEN [used_backends |-> ub, raised |-> NoError, returned_model |-> 0,
              calls |-> <<>>, logs |-> warn]
        ELSE IF dm = AbsentMap
        THEN [used_backends |-> ub, raised |-> AttributeError("device_map"), returned_model |-> 0,
              calls |-> <<>>, logs |-> warn]
        ELSE [used_backends |-> ub, raised |-> NoError, returned_model |-> 0,
              calls |-> <<c1, c2>>, logs |-> warn]

\* The before-hook converting whether or not the weights are pre-quantized.
process_model_before_weight_loading_unconditional(pq, dm, ub, m, main_input_name, avail, conv) ==
    LET warn == IF main_input_name # "input_ids"
                THEN <<"warning: limited support for models that are not purely text-based">>
                ELSE <<>>
        target_device == infer_target_device(dm)
        c1 == Call("infer_target_device", 0, dm, "", 0, target_device)
        c2 == Call("convert_hf_model", m, NoneMap, target_device, conv.model, conv.used_backends)
    IN  IF ~avail
        THEN [used_backends |-> ub, raised |-> ModuleNotFoundError, returned_model |-> 0,
              calls |-> <<>>, logs |-> warn]
        ELSE IF dm = AbsentMap
        THEN [used_backends |-> ub, raised |-> AttributeError("device_map"), returned_model |-> 0,
              calls |-> <<>>, logs |-> warn]
        ELSE [used_backends |-> conv.used_backends, raised |-> NoError, returned_model |-> 0,
              calls |-> <<c1, c2>>, logs |-> warn]

\* _process_model_before_weight_loading(m) on a quantizer with fields pq
\* (pre_quantized), dm (device_map), ub (used_backends); main_input_name is
\* that of m's class; conv is what convert_hf_model returns if it is called.
\* The method has no return statement: returned_model 0 is Python's None.
process_model_before_weight_loading(pq, dm, ub, m, main_input_name, avail, conv) ==
    LET warn == IF main_input_name # "input_ids"
                THEN <<"warning: limited support for models that are not purely text-based">>
                ELSE <<>>
        target_device == infer_target_device(dm)
        c1 == Call("infer_target_device", 0, dm, "", 0, target_device)
        c2 == Call("convert_hf_model", m, NoneMap, target_device, conv.model, conv.used_backends)
    IN  IF ~avail
        THEN [used_backends |-> ub, raised |-> ModuleNotFoundError, returned_model |-> 0,
              calls |-> <<>>, logs |-> warn]
        ELSE IF ~pq
        THEN [used_backends |-> ub, raised |-> NoError, returned_model |-> 0,
              calls |-> <<>>, logs |-> warn]
        ELSE IF dm = AbsentMap
        THEN [used_backends |-> ub, raised |-> AttributeError("device_map"), returned_model |-> 0,
              calls |-> <<>>, logs |-> warn]
        ELSE [used_backends |-> conv.used_backends, raised |-> NoError, returned_model |-> 0,
              calls |-> <<c1, c2>>, logs |-> warn]

\* The after-hook returning silently when the weights are not pre-quantized.
process_model_after_weight_loading_silent(pq, ub, m, avail) ==
    IF pq
    THEN IF ~avail
         THEN [raised |-> ModuleNotFoundError, calls |-> <<>>]
         ELSE IF ub = ABSENT
         THEN [raised |-> AttributeError("used_backends"), calls |-> <<>>]
         ELSE [raised |-> NoError, calls |-> <<Call("post_init", m, NoneMap, ub, 0, "")>>]
    ELSE [raised |-> NoError, calls |-> <<>>]

\* _process_model_after_weight_loading(m).
process_model_after_weight_loading(pq, ub, m, avail) ==
    IF pq
    THEN IF ~avail
         THEN [raised |-> ModuleNotFoundError, calls |-> <<>>]
         ELSE IF ub = ABSENT
         THEN [raised |-> AttributeError("used_backends"), calls |-> <<>>]
         ELSE [raised |-> NoError, calls |-> <<Call("post_init", m, NoneMap, ub, 0, "")>>]
    ELSE [raised |-> NotImplementedError, calls |-> <<>>]

\* is_trainable answering per model: false without a model.
is_trainable_per_model(m) == IF m = 0 THEN "False" ELSE True

\* The is_trainable property (its model parameter is an absent handle, 0, or a handle).
is_trainable(m) == True

\* is_serializable(safe_serialization).
is_serializable(safe_serialization) == True

(***************************************************************************)
(* The lifecycle of one model load.                                        *)
(***************************************************************************)
\* The state a call leaves the load in: an exception propagates to the host
\* and the load fails; a hook that returns completes its stage.
Lifecycle(current, name, exc) ==
    IF exc # NoError THEN "Failed"
    ELSE IF name = "validate_environment" THEN "Validated"
    ELSE IF name = "_process_model_before_weight_loading" THEN "BeforeHookRun"
    ELSE IF name = "_process_model_after_weight_loading" THEN "AfterHookRun"
    ELSE current

Invoked(cs, f) == \E i \in 1..Len(cs) : cs[i].fn = f
TheCall(cs, f) == cs[CHOOSE i \in 1..Len(cs) : cs[i].fn = f]

VARIABLES
    \* the environment
    auto_round_available, auto_round_version, optimum_available,
    \* the quantizer's fields
    pre_quantized, device_map, used_backends,
    \* the host's model handle, the handles that exist, the converted ones
    model, nhandles, converted,
    \* the load's lifecycle state, whether its before-hook has returned, and the
    \* backend selection the last conversion returned to this quantizer
    phase, beforeRan, lastSelection,
    \* the last call: its name, argument, exception, return value, external
    \* calls, notices
    op, arg, raised, returned, calls, logs

env == <<auto_round_available, auto_round_version, optimum_available>>
fields == <<pre_quantized, device_map, used_backends>>
handles == <<model, nhandles, converted>>
load == <<phase, beforeRan>>
last == <<op, arg, raised, returned, calls, logs>>
vars == <<env, fields, handles, load, lastSelection, last>>

\* AutoRoundQuantizer(quantization_config, pre_quantized=pq): no device_map
\* and no used_backends attribute yet.
QuantizerInit(pq) ==
    /\ pre_quantized' = pq
    /\ device_map' = AbsentMap
    /\ used_backends' = ABSENT
    /\ lastSelection' = None

\* The host starts a load: a model handle not converted yet.
LoadInit ==
    /\ model' = 1
    /\ nhandles' = 1
    /\ converted' = {}
    /\ phase' = "Unvalidated"
    /\ beforeRan' = FALSE

NoCall(name) ==
    /\ op' = name
    /\ arg' = None
    /\ raised' = NoError
    /\ returned' = None
    /\ calls' = <<>>
    /\ logs' = <<>>

Init ==
    /\ auto_round_available \in BOOLEAN
    /\ auto_round_version \in (IF auto_round_available THEN VersionStrings ELSE { NoVersion })
    /\ optimum_available \in BOOLEAN
    /\ pre_quantized \in BOOLEAN
    /\ device_map = AbsentMap
    /\ used_backends = ABSENT
    /\ lastSelection = None
    /\ model = 1
    /\ nhandles = 1
    /\ converted = {}
    /\ phase = "Unvalidated"
    /\ beforeRan = FALSE
    /\ op = "__init__"
    /\ arg = None
    /\ raised = NoError
    /\ returned = None
    /\ calls = <<>>
    /\ logs = <<>>

(***************************************************************************)
(* The calls.                                                              *)
(***************************************************************************)
\* from_pretrained with a new quantizer.
FromPretrained ==
    \E pq \in BOOLEAN :
        /\ QuantizerInit(pq)
        /\ LoadInit
        /\ NoCall("__init__")
        /\ UNCHANGED env

\* Another load through the same quantizer object.
Reload ==
    /\ LoadInit
    /\ NoCall("reload")
    /\ UNCHANGED <<env, fields, lastSelection>>

Call_validate_environment ==
    \E D \in DeviceMaps :
        LET o == validate_environment(D, auto_round_available, auto_round_version,
                                      optimum_available)
        IN  /\ device_map' = o.device_map
            /\ op' = "validate_environment"
            /\ arg' = None
            /\ raised' = o.raised
            /\ returned' = None
            /\ calls' = o.calls
            /\ logs' = <<>>
            /\ phase' = Lifecycle(phase, "validate_environment", o.raised)
            /\ UNCHANGED <<env, pre_quantized, used_backends, handles, beforeRan, lastSelection>>

Call_update_torch_dtype ==
    \E X \in Dtypes :
        LET o == update_torch_dtype(X)
        IN  /\ op' = "update_torch_dtype"
            /\ arg' = X
            /\ raised' = NoError
            /\ returned' = o.returned
            /\ calls' = <<>>
            /\ logs' = o.logs
            /\ UNCHANGED <<env, fields, handles, load, lastSelection>>

Call_process_model_before_weight_loading ==
    \E name \in MainInputNames, b \in Backends, fresh \in BOOLEAN :
        /\ fresh => nhandles < MaxHandles
        /\ LET m2 == IF fresh THEN nhandles + 1 ELSE model
               o == process_model_before_weight_loading(
                        pre_quantized, device_map, used_backends, model, name,
                        auto_round_available, [model |-> m2, used_backends |-> b])
               conv == Invoked(o.calls, "convert_hf_model")
           IN  /\ used_backends' = o.used_backends
               /\ op' = "_process_model_before_weight_loading"
               /\ arg' = None
               /\ raised' = o.raised
               /\ returned' = IF o.returned_model = 0 THEN None ELSE "model"
               /\ calls' = o.calls
               /\ logs' = o.logs
               \* the conversion rewrites the handle it returns
               /\ converted' = IF conv THEN converted \cup { m2 } ELSE converted
               /\ nhandles' = IF conv /\ fresh THEN nhandles + 1 ELSE nhandles
               /\ lastSelection' = IF conv THEN b ELSE lastSelection
               \* the host adopts a handle the hook returns
               /\ model' = IF o.returned_model = 0 THEN model ELSE o.returned_model
               /\ phase' = Lifecycle(phase, "_process_model_before_weight_loading", o.raised)
               /\ beforeRan' = (beforeRan \/ o.raised = NoError)
               /\ UNCHANGED <<env, pre_quantized, device_map>>

Call_process_model_after_weight_loading ==
    LET o == process_model_after_weight_loading(pre_quantized, used_backends, model,
                                                auto_round_available)
    IN  /\ op' = "_process_model_after_weight_loading"
        /\ arg' = None
        /\ raised' = o.raised
        /\ returned' = None
        /\ calls' = o.calls
        /\ logs' = <<>>
        /\ phase' = Lifecycle(phase, "_process_model_after_weight_loading", o.raised)
        /\ UNCHANGED <<env, fields, handles, beforeRan, lastSelection>>

Call_is_trainable ==
    \E m \in { 0 } \cup Handles :
        /\ op' = "is_trainable"
        /\ arg' = ToString(m)
        /\ raised' = NoError
        /\ returned' = is_trainable(m)
        /\ calls' = <<>>
        /\ logs' = <<>>
        /\ UNCHANGED <<env, fields, handles, load, lastSelection>>

Call_is_serializable ==
    \E safe_serialization \in { None, "True", "False" } :
        /\ op' = "is_serializable"
        /\ arg' = safe_serialization
        /\ raised' = NoError
        /\ returned' = is_serializable(safe_serialization)
        /\ calls' = <<>>
        /\ logs' = <<>>
        /\ UNCHANGED <<env, fields, handles, load, lastSelection>>

\* The quantizer's methods, called in any order.
Next ==
    \/ FromPretrained
    \/ Reload
    \/ Call_validate_environment
    \/ Call_update_torch_dtype
    \/ Call_process_model_before_weight_loading
    \/ Call_process_model_after_weight_loading
    \/ Call_is_trainable
    \/ Call_is_serializable

Spec == Init /\ [][Next]_vars

(***************************************************************************)
(* The host's load: from_pretrained constructs the quantizer and calls     *)
(* validate_environment, update_torch_dtype, the before-hook and the       *)
(* after-hook in that order; an exception ends the load.                   *)
(***************************************************************************)
Host_from_pretrained ==
    /\ phase \in { "AfterHookRun", "Failed" }
    /\ FromPretrained

Host_validate_environment ==
    /\ phase = "Unvalidated"
    /\ Call_validate_environment

Host_update_torch_dtype ==
    /\ phase = "Validated"
    /\ op = "validate_environment"
    /\ Call_update_torch_dtype

Host_preprocess_model ==
    /\ phase = "Validated"
    /\ op = "update_torch_dtype"
    /\ Call_process_model_before_weight_loading

Host_postprocess_model ==
    /\ phase = "BeforeHookRun"
    /\ Call_process_model_after_weight_loading

\* The loaded model is queried (training, save_pretrained).
Host_is_trainable ==
    /\ phase = "AfterHookRun"
    /\ Call_is_trainable

Host_is_serializable ==
    /\ phase = "AfterHookRun"
    /\ Call_is_serializable

LoadNext ==
    \/ Host_from_pretrained
    \/ Host_validate_environment
    \/ Host_update_torch_dtype
    \/ Host_preprocess_model
    \/ Host_postprocess_model
    \/ Host_is_trainable
    \/ Host_is_serializable

\* from_pretrained is straight-line synchronous code: each call of a load is
\* made once the one before it has returned.
LoadSpec ==
    /\ Init
    /\ [][LoadNext]_vars
    /\ WF_vars(Host_validate_environment)
    /\ WF_vars(Host_update_torch_dtype)
    /\ WF_vars(Host_preprocess_model)
    /\ WF_vars(Host_postprocess_model)

(***************************************************************************)
(* The error kinds and the version order, stated on their own.             *)
(***************************************************************************)
MissingDependency(e) == e.type = "ImportError" /\ e.msg \in { InstallAutoRound, InstallOptimum }
UnsupportedVersion(e) == e.type = "ImportError" /\ e.msg = UpgradeAutoRound
NotSupported(e) == e.type = "NotImplementedError"

\* V < 0.5.0 for an installed version string: by the number
\* major.minor.micro, a pre-release coming before its release.
BelowFloor(v) ==
    LET r == v.release
        n == r[1] * 10000 + r[2] * 100 + (IF Len(r) >= 3 THEN r[3] ELSE 0)
    IN  n < 500 \/ (n = 500 /\ v.pre)

EnvironmentValid ==
    auto_round_available /\ ~BelowFloor(auto_round_version) /\ optimum_available

BeforeHook == "_process_model_before_weight_loading"
AfterHook == "_process_model_after_weight_loading"

(***************************************************************************)
(* C1.  validate_environment called while auto_round is not available      *)
(* signals MissingDependency (the install remedy of auto-round), whatever  *)
(* the device map, and does not query the version of auto_round.           *)
(***************************************************************************)
C1_AbsentPackage ==
    (op = "validate_environment" /\ ~auto_round_available)
        => /\ MissingDependency(raised)
           /\ raised.msg = InstallAutoRound
           /\ ~Invoked(calls, "importlib.metadata.version")

C1_Witness ==
    /\ op = "validate_environment"
    /\ ~auto_round_available
    /\ device_map = [kind |-> "dict", dev |-> "cuda"]
    /\ raised # NoError

(***************************************************************************)
(* C2.  With auto_round installed at version V, validate_environment       *)
(* signals UnsupportedVersion when V < 0.5.0 (optimum present or not),     *)
(* MissingDependency when V >= 0.5.0 and optimum is absent, and succeeds   *)
(* when V >= 0.5.0 and optimum is present: it succeeds exactly when        *)
(* auto_round is present, V >= 0.5.0 and optimum is present.               *)
(***************************************************************************)
C2_VersionFloor ==
    op = "validate_environment"
        => /\ (auto_round_available /\ BelowFloor(auto_round_version))
                => UnsupportedVersion(raised)
           /\ (auto_round_available /\ ~BelowFloor(auto_round_version) /\ ~optimum_available)
                => (MissingDependency(raised) /\ raised.msg = InstallOptimum)
           /\ (raised = NoError) <=> EnvironmentValid

C2_Witness ==
    /\ op = "validate_environment"
    /\ auto_round_available
    /\ auto_round_version = [release |-> <<0, 5>>, pre |-> FALSE]
    /\ optimum_available
    /\ raised = NoError

(***************************************************************************)
(* C3.  update_torch_dtype returns half precision for an unset request and *)
(* the requested dtype otherwise; it raises nothing, invokes no external   *)
(* routine and changes no field of the quantizer (nor the model, nor the   *)
(* load's state): only the notice is emitted.                              *)
(***************************************************************************)
C3_SelectComputeDtype ==
    /\ [](op = "update_torch_dtype"
            => /\ returned = (IF arg = None THEN "float16" ELSE arg)
               /\ raised = NoError
               /\ calls = <<>>)
    /\ [][op' = "update_torch_dtype"
            => UNCHANGED <<fields, handles, load, lastSelection>>]_vars

C3_Witness ==
    /\ op = "update_torch_dtype"
    /\ arg = "bfloat16"
    /\ returned = "bfloat16"
    /\ logs # <<>>
    /\ used_backends # ABSENT

(***************************************************************************)
(* C4.  The after-hook on a quantizer that is not pre-quantized signals    *)
(* NotSupported and invokes no external routine (no post_init), whatever   *)
(* ran before it; a load that is not pre-quantized never reaches           *)
(* AfterHookRun.                                                           *)
(***************************************************************************)
C4_NotSupported ==
    /\ (op = AfterHook /\ ~pre_quantized)
          => /\ NotSupported(raised)
             /\ calls = <<>>
             /\ phase = "Failed"
    /\ phase = "AfterHookRun" => pre_quantized

C4_Witness ==
    /\ op = AfterHook
    /\ ~pre_quantized
    /\ beforeRan
    /\ device_map # AbsentMap
    /\ NotSupported(raised)

(***************************************************************************)
(* C5.  On the pre-quantized path the before-hook, when it returns, has    *)
(* invoked infer_target_device on the recorded device map and then         *)
(* convert_hf_model on the host's handle with the device inferred, and has *)
(* recorded in used_backends the selection the conversion returned; the    *)
(* after-hook invokes post_init with that selection, which no other call   *)
(* has altered.                                                            *)
(***************************************************************************)
C5_BackendSelection ==
    /\ (op = BeforeHook /\ pre_quantized /\ raised = NoError)
          => /\ Len(calls) = 2
             /\ calls[1].fn = "infer_target_device"
             /\ calls[1].dmap = device_map
             /\ calls[2].fn = "convert_hf_model"
             /\ calls[2].model = model
             /\ calls[2].arg = infer_target_device(device_map)
             /\ used_backends = calls[2].ret
    /\ (op = AfterHook /\ Invoked(calls, "post_init"))
          => /\ Len(calls) = 1
             /\ calls[1].arg = lastSelection
             /\ calls[1].model = model
    /\ used_backends = (IF lastSelection = None THEN ABSENT ELSE lastSelection)

C5_Witness ==
    /\ op = AfterHook
    /\ Invoked(calls, "post_init")
    /\ EnvironmentValid
    /\ pre_quantized
    /\ device_map = [kind |-> "dict", dev |-> "cuda"]
    /\ beforeRan
    /\ phase = "AfterHookRun"
    /\ calls[1].arg = "ipex"

(***************************************************************************)
(* C6.  On a quantizer that is not pre-quantized the before-hook invokes   *)
(* neither infer_target_device nor convert_hf_model, returns no handle,    *)
(* and leaves the model handle, the backend selection (unrecorded) and the *)
(* device map as they were.                                                *)
(***************************************************************************)
C6_BeforeHookNoOp ==
    /\ []((op = BeforeHook /\ ~pre_quantized)
            => /\ calls = <<>>
               /\ returned = None
               /\ used_backends = ABSENT)
    /\ [][(op' = BeforeHook /\ ~pre_quantized)
            => UNCHANGED <<fields, handles, lastSelection>>]_vars

C6_Witness ==
    /\ op = BeforeHook
    /\ ~pre_quantized
    /\ EnvironmentValid
    /\ phase = "BeforeHookRun"
    /\ device_map = [kind |-> "str", dev |-> "cuda"]

(***************************************************************************)
(* C7.  is_trainable and is_serializable answer true for every argument    *)
(* and in every state of the quantizer.                                    *)
(***************************************************************************)
C7_ConstantTrue ==
    /\ op \in { "is_trainable", "is_serializable" } => (returned = True /\ raised = NoError)
    /\ ENABLED Call_is_trainable
    /\ ENABLED Call_is_serializable

C7_Witness ==
    /\ op = "is_trainable"
    /\ arg = "0"
    /\ phase = "Failed"
    /\ returned = True

(***************************************************************************)
(* C8.  On the pre-quantized path an after-hook called when the            *)
(* before-hook has not run in the same load is rejected and does not       *)
(* invoke post_init: whenever post_init is invoked, the selection it gets  *)
(* was recorded by a before-hook of the current load.                      *)
(***************************************************************************)
C8_SequencingRejected ==
    /\ (op = AfterHook /\ pre_quantized /\ ~beforeRan)
          => (raised # NoError /\ ~Invoked(calls, "post_init"))
    /\ Invoked(calls, "post_init") => beforeRan

(***************************************************************************)
(* C9.  Under the host's load sequence: the lifecycle moves only           *)
(* Unvalidated -> Validated -> BeforeHookRun -> AfterHookRun (a failure    *)
(* ends the load); the before-hook runs, and the conversion is invoked,    *)
(* only after validate_environment succeeded in that load, in a valid      *)
(* environment; a validation failure leaves the load failed; and a         *)
(* pre-quantized load in a valid environment reaches AfterHookRun.         *)
(***************************************************************************)
C9_Transitions ==
    { <<"Unvalidated", "Validated">>, <<"Unvalidated", "Failed">>,
      <<"Validated", "BeforeHookRun">>,
      <<"BeforeHookRun", "AfterHookRun">>, <<"BeforeHookRun", "Failed">>,
      <<"AfterHookRun", "Unvalidated">>, <<"Failed", "Unvalidated">> }

C9_Lifecycle ==
    /\ [][phase' # phase => <<phase, phase'>> \in C9_Transitions]_vars
    /\ [](phase \in { "BeforeHookRun", "AfterHookRun" } => EnvironmentValid)
    /\ [](Invoked(calls, "convert_hf_model")
            => (EnvironmentValid /\ phase = "BeforeHookRun" /\ device_map # AbsentMap))
    /\ []((op = "validate_environment" /\ raised # NoError)
            => /\ phase = "Failed"
               /\ (MissingDependency(raised) \/ UnsupportedVersion(raised))
               /\ ~beforeRan)
    /\ [][(phase = "Failed" /\ phase' # phase) => (phase' = "Unvalidated" /\ ~beforeRan')]_vars
    /\ (phase = "Unvalidated" /\ EnvironmentValid /\ pre_quantized) ~> (phase = "AfterHookRun")

C9_Witness ==
    /\ phase = "AfterHookRun"
    /\ op = AfterHook
    /\ pre_quantized
    /\ Invoked(calls, "post_init")

(***************************************************************************)
(* C10.  When convert_hf_model returns a handle other than the one passed  *)
(* in, the before-hook returns it and the host adopts it: post_init runs   *)
(* on a converted handle.                                                  *)
(***************************************************************************)
C10_ConvertedHandleAdopted ==
    /\ (op = BeforeHook /\ Invoked(calls, "convert_hf_model"))
          => model = TheCall(calls, "convert_hf_model").ret_model
    /\ Invoked(calls, "post_init") => TheCall(calls, "post_init").model \in converted

=============================================================================
